---- MODULE Spec2Model ----
(***************************************************************************)
(* Aarogya Saathi: password hashing, the in-memory session table and the   *)
(* HTTP routes that use them (app/auth.py, app/routes/*.py, app/models.py).*)
(*                                                                         *)
(* Strings the code inspects character by character (passwords, salts,     *)
(* credentials, emails, titles) are sequences of one-character strings.    *)
(* Time is counted in hours.                                               *)
(***************************************************************************)
EXTENDS Integers, Sequences, FiniteSets, TLC

VARIABLES
    users,      \* the users table: sequence of rows, in insertion order
    records,    \* the medical_records table: sequence of rows
    sessions,   \* auth.sessions: token -> [user_id, role, created_at]
    issued,     \* the tokens secrets.token_urlsafe has returned so far
    now,        \* datetime.now(), in hours
    ret,        \* the last call on the session table and what it returned
    resp,       \* the last HTTP request and its response
    cred,       \* the last call on hash_password / verify_password
    frames      \* per request thread: the call it is inside and its locals

vars == <<users, records, sessions, issued, now, ret, resp, cred, frames>>

\* Python's None where a session or a row is expected; NoError: no exception
None == [none |-> TRUE]

NoError == "none"

\* ------------------------------------------------------------------ bounds
NumTokens == 2          \* how many distinct tokens the token source can return
MaxNow == 36            \* the clock stops advancing after this hour
MaxCredLen == 3         \* longest arbitrary credential string handed to verify
MaxRecords == 1         \* rows the medical_records table may hold
MaxClinicRecords == 2   \* the same, in the clinic with four users

\* ------------------------------------------------------- program constants
SessionHours == 24      \* timedelta(hours=24)
MinPasswordLen == 6     \* len(password) < 6 is rejected by /register
DigestLen == 64         \* hex digits of a SHA-256 digest
TokenBytes == 32        \* secrets.token_urlsafe(32)

Tokens == 1..NumTokens
RolesWithAdmin == {"doctor", "patient", "admin"}

Roles == {"doctor", "patient"}
SubjectIds == {1, 2}

\* ---------------------------------------------------------- small helpers
CountChar(c, s) == Cardinality({i \in 1..Len(s) : s[i] = c})

Contains(c, s) == \E i \in 1..Len(s) : s[i] = c

RECURSIVE SeqsUpTo(_, _)
SeqsUpTo(S, n) ==
    IF n = 0 THEN {<<>>}
    ELSE LET shorter == SeqsUpTo(S, n - 1)
         IN  shorter \cup {Append(s, c) : s \in shorter, c \in S}

\* ======================================================= Credential Store

\* hashlib.sha256(...).hexdigest(): 64 hex digits. The digest is modelled as
\* collision-free: two hex digits per character of the input, padded on the
\* left with "f" (no first digit of a pair is "f") to the length of the real
\* digest; like hexdigest() it never holds ':'.
HexOf(c) ==
    CASE c = "a" -> <<"6", "1">>
      [] c = "b" -> <<"6", "2">>
      [] c = "c" -> <<"6", "3">>
      [] c = "e" -> <<"6", "5">>
      [] c = "r" -> <<"7", "2">>
      [] c = "s" -> <<"7", "3">>
      [] c = "t" -> <<"7", "4">>
      [] c = "0" -> <<"3", "0">>
      [] c = "3" -> <<"3", "3">>
      [] c = "6" -> <<"3", "6">>
      [] c = "7" -> <<"3", "7">>
      [] c = ":" -> <<"3", "a">>
      [] OTHER   -> <<"3", "f">>

RECURSIVE HexSeq(_)
HexSeq(s) == IF s = <<>> THEN <<>> ELSE HexOf(Head(s)) \o HexSeq(Tail(s))

Sha256Hex(s) ==
    LET h == HexSeq(s)
    IN  [i \in 1..DigestLen |->
            IF i <= DigestLen - Len(h) THEN "f"
            ELSE h[i - (DigestLen - Len(h))]]

\* str.split(":"): the parts between the separators, k separators -> k+1 parts
SepsOf(s, sep) == {i \in 1..Len(s) : s[i] = sep}

\* The k-th cut of s: position 0, then the separators in order, then Len(s)+1.
CutOf(s, sep, k) ==
    LET cuts == {0, Len(s) + 1} \cup SepsOf(s, sep)
    IN  CHOOSE x \in cuts : Cardinality({y \in cuts : y < x}) = k - 1

Split(s, sep) ==
    [k \in 1..(Cardinality(SepsOf(s, sep)) + 1) |->
        SubSeq(s, CutOf(s, sep, k) + 1, CutOf(s, sep, k + 1) - 1)]

\* hash_password with the salt secrets.token_hex returned
HashPassword(password, salt) ==
    salt \o <<":">> \o Sha256Hex(password \o salt)

\* The body of the try block: unpacking the split into two names raises
\* ValueError unless there are exactly two parts.
VerifyTry(password, password_hash) ==
    LET parts == Split(password_hash, ":")
    IN  IF Len(parts) # 2
        THEN [raised |-> "ValueError", value |-> FALSE]
        ELSE [raised |-> NoError,
              value  |-> (Sha256Hex(password \o parts[1]) = parts[2])]

VerifyNoExcept(password, password_hash) == VerifyTry(password, password_hash)

VerifyUnsalted(password, password_hash) ==
    LET parts == Split(password_hash, ":")
    IN  IF Len(parts) # 2
        THEN [raised |-> NoError, value |-> FALSE]
        ELSE [raised |-> NoError, value |-> (Sha256Hex(password) = parts[2])]

\* verify_password: the try block, with ValueError turned into False
VerifyPassword(password, password_hash) ==
    LET r == VerifyTry(password, password_hash)
    IN  IF r.raised = "ValueError"
        THEN [raised |-> NoError, value |-> FALSE]
        ELSE r

\* Inputs of the credential checks
PwSecret == <<"s", "e", "c", "r", "e", "t">>
PwSecre7 == <<"s", "e", "c", "r", "e", "7">>
Passwords == {<<>>, <<"a">>, <<"a", "b">>, <<"a", ":">>, PwSecret, PwSecre7}
Salts == {<<"0">>, <<"b", "3">>}
CredChars == {"a", ":", "6"}
Credentials == SeqsUpTo(CredChars, MaxCredLen)

\* The state after import: empty tables, no session, no call made yet
Handlers == {"h1", "h2"}

\* A request thread outside the registry: no call made yet
IdleFrame ==
    [pc |-> "idle", op |-> "none", token |-> 0, user_id |-> 0, role |-> "",
     session |-> None, result |-> None, raised |-> NoError, made |-> None]

InitState ==
    /\ users = <<>>
    /\ records = <<>>
    /\ sessions = [t \in {} |-> None]
    /\ issued = {}
    /\ now = 0
    /\ ret = [op |-> "none", token |-> 0]
    /\ resp = [route |-> "none"]
    /\ cred = [op |-> "none", credential |-> <<>>, origin |-> "none"]
    /\ frames = [h \in Handlers |-> IdleFrame]

InitCred == InitState

\* cred.credential is the credential string at hand, cred.origin where it
\* came from: "hash" (with the password and salt that made it) or "given".
Hash(p, salt) ==
    /\ cred' = [op |-> "hash", password |-> p, salt |-> salt,
                credential |-> HashPassword(p, salt), origin |-> "hash"]
    /\ UNCHANGED <<users, records, sessions, issued, now, ret, resp, frames>>

Verify(q) ==
    /\ cred.origin = "hash"
    /\ cred' = [op |-> "verify", password |-> cred.password, salt |-> cred.salt,
                credential |-> cred.credential, origin |-> "hash",
                candidate |-> q,
                result |-> VerifyPassword(q, cred.credential)]
    /\ UNCHANGED <<users, records, sessions, issued, now, ret, resp, frames>>

VerifyGiven(q, c) ==
    /\ cred' = [op |-> "verify", credential |-> c, origin |-> "given",
                candidate |-> q, result |-> VerifyPassword(q, c)]
    /\ UNCHANGED <<users, records, sessions, issued, now, ret, resp, frames>>

NextCred ==
    \/ \E p \in Passwords, salt \in Salts : Hash(p, salt)
    \/ \E q \in Passwords : Verify(q)
    \/ \E q \in Passwords, c \in Credentials : VerifyGiven(q, c)

SpecCred == InitCred /\ [][NextCred]_vars

\* C9: verifying q against hash(p), whatever salt hash chose, yields true
\* exactly when q = p, and does not raise.
C9_VerifyMatchesHash ==
    (cred.op = "verify" /\ cred.origin = "hash") =>
        /\ cred.credential = HashPassword(cred.password, cred.salt)
        /\ cred.result.raised = NoError
        /\ cred.result.value = (cred.candidate = cred.password)

C9_Witness ==
    /\ cred.op = "verify" /\ cred.origin = "hash"
    /\ cred.candidate # cred.password
    /\ Len(cred.candidate) = Len(cred.password)
    /\ cred.result.value = FALSE

\* C10: verify against a credential that does not split on ':' into exactly
\* two parts (no ':' or more than one) returns false and does not raise.
C10_MalformedIsFalse ==
    (cred.op = "verify" /\ CountChar(":", cred.credential) # 1) =>
        /\ cred.result.raised = NoError
        /\ cred.result.value = FALSE

C10_Witness ==
    /\ cred.op = "verify" /\ cred.origin = "given"
    /\ CountChar(":", cred.credential) = 2
    /\ cred.result = [raised |-> NoError, value |-> FALSE]

\* ======================================================== Session Registry

\* The dict operations the registry uses. del raises KeyError on a key that
\* is not there, and so does a subscript read.
Put(s, t, session) ==
    [k \in DOMAIN s \cup {t} |-> IF k = t THEN session ELSE s[k]]

Remove(s, t) == [k \in DOMAIN s \ {t} |-> s[k]]

DictDel(s, t) ==
    IF t \in DOMAIN s
    THEN [store |-> Remove(s, t), raised |-> NoError]
    ELSE [store |-> s, raised |-> "KeyError"]

\* secrets.token_urlsafe(32): 256 random bits, modelled as a token that was
\* never returned before
AnyToken == Tokens

NotLiveTokens == Tokens \ DOMAIN sessions

FreshTokens == Tokens \ issued

\* datetime.now() - session["created_at"] < timedelta(hours=24)
LiveAtOrBefore(session, time) == time - session.created_at <= SessionHours

Live(session, time) == time - session.created_at < SessionHours

\* create_session: the table after sessions[session_token] = {...}
StoreKeyedByUser(s, t, user_id, role, time) ==
    Put(s, user_id, [user_id |-> user_id, role |-> role, created_at |-> time])

CreateSessionStore(s, t, user_id, role, time) ==
    Put(s, t, [user_id |-> user_id, role |-> role, created_at |-> time])

\* get_session run to completion: what it returns and the table it leaves
GetSessionMasks(s, t, time) ==
    IF t \in DOMAIN s /\ Live(s[t], time)
    THEN [store |-> s, result |-> s[t], raised |-> NoError]
    ELSE [store |-> s, result |-> None, raised |-> NoError]

GetSessionCall(s, t, time) ==
    IF t \in DOMAIN s
    THEN IF Live(s[t], time)
         THEN [store |-> s, result |-> s[t], raised |-> NoError]
         ELSE [store |-> DictDel(s, t).store, result |-> None,
               raised |-> DictDel(s, t).raised]
    ELSE [store |-> s, result |-> None, raised |-> NoError]

\* delete_session run to completion
DeleteUnguarded(s, t) == DictDel(s, t)

DeleteSessionCall(s, t) ==
    IF t \in DOMAIN s THEN DictDel(s, t) ELSE [store |-> s, raised |-> NoError]

Last == [op |-> ret.op, token |-> ret.token]

CreateSession(user_id, role) ==
    \E t \in FreshTokens :
        /\ issued' = issued \cup {t}
        /\ sessions' = CreateSessionStore(sessions, t, user_id, role, now)
        /\ ret' = [op |-> "create", token |-> t, user_id |-> user_id,
                   role |-> role, at |-> now, prev |-> Last]
        /\ UNCHANGED <<users, records, now, resp, cred, frames>>

GetSession(t) ==
    LET call == GetSessionCall(sessions, t, now)
    IN  /\ sessions' = call.store
        /\ ret' = [op |-> "get", token |-> t, result |-> call.result,
                   raised |-> call.raised,
                   was_present |-> (t \in DOMAIN sessions), prev |-> Last]
        /\ UNCHANGED <<users, records, issued, now, resp, cred, frames>>

DeleteSession(t) ==
    LET call == DeleteSessionCall(sessions, t)
    IN  /\ sessions' = call.store
        /\ ret' = [op |-> "delete", token |-> t, raised |-> call.raised,
                   was_present |-> (t \in DOMAIN sessions), prev |-> Last]
        /\ UNCHANGED <<users, records, issued, now, resp, cred, frames>>

\* the wall clock moves on by d hours
Tick(d) ==
    /\ now + d <= MaxNow
    /\ now' = now + d
    /\ UNCHANGED <<users, records, sessions, issued, ret, resp, cred, frames>>

Next ==
    \/ \E u \in SubjectIds, r \in Roles : CreateSession(u, r)
    \/ \E t \in Tokens : GetSession(t)
    \/ \E t \in Tokens : DeleteSession(t)
    \/ Tick(12)

Spec == InitState /\ [][Next]_vars

\* C1: a get on the token a create just returned, less than 24 hours after
\* the create, returns the subject id and role given to that create,
\* whatever else the table holds.
C1_GetAfterCreate ==
    [][\A t \in Tokens :
        (/\ ret.op = "create" /\ ret.token = t
         /\ now - ret.at < SessionHours
         /\ GetSession(t))
        => /\ ret'.result # None
           /\ ret'.result.user_id = ret.user_id
           /\ ret'.result.role = ret.role
           /\ ret'.raised = NoError]_vars

C1_Witness ==
    /\ ret.op = "get" /\ ret.prev = [op |-> "create", token |-> ret.token]
    /\ ret.result # None
    /\ now > ret.result.created_at
    /\ Cardinality(DOMAIN sessions) >= 2

\* C2: a get on a stored session that is 24 hours old or older returns
\* absent and removes the entry; the token then stays out of the table, a get
\* on a token that is not in the table returns absent, and no get changes
\* any entry it leaves in the table (created_at included).
C2_ExpiredGetPurges ==
    [][\A t \in Tokens :
        /\ (GetSession(t) /\ t \in DOMAIN sessions
                /\ now - sessions[t].created_at >= SessionHours)
           => (ret'.result = None /\ t \notin DOMAIN sessions')
        /\ (GetSession(t) /\ t \in DOMAIN sessions
                /\ now - sessions[t].created_at < SessionHours)
           => (ret'.result = sessions[t] /\ sessions' = sessions)
        /\ (GetSession(t) /\ t \notin DOMAIN sessions) => ret'.result = None
        /\ GetSession(t)
           => \A k \in DOMAIN sessions \ {t} :
                k \in DOMAIN sessions' /\ sessions'[k] = sessions[k]
        /\ (t \in issued /\ t \notin DOMAIN sessions)
           => t \notin DOMAIN sessions']_vars

C2_Witness ==
    /\ ret.op = "get" /\ ret.was_present /\ ret.result = None
    /\ ret.prev = [op |-> "get", token |-> ret.token]
    /\ ret.token \notin DOMAIN sessions
    /\ DOMAIN sessions # {}

\* C3: delete removes the entry of the given token and no other, does not
\* raise, leaves the table unchanged when the token is not in it, and a get
\* on the token right after the delete returns absent.
C3_DeleteThenGet ==
    [][\A t \in Tokens :
        /\ DeleteSession(t)
           => /\ ret'.raised = NoError
              /\ DOMAIN sessions' = DOMAIN sessions \ {t}
              /\ \A k \in DOMAIN sessions' : sessions'[k] = sessions[k]
        /\ (DeleteSession(t) /\ t \notin DOMAIN sessions)
           => sessions' = sessions
        /\ (ret.op = "delete" /\ ret.token = t /\ GetSession(t))
           => ret'.result = None]_vars

C3_Witness ==
    /\ ret.op = "get" /\ ret.prev = [op |-> "delete", token |-> ret.token]
    /\ ret.result = None
    /\ ret.token \in issued
    /\ DOMAIN sessions # {}

\* the age in hours of the entry stored under t
Age(t) == now - sessions[t].created_at

\* C11 as stated: every entry in the table is less than 24 hours old.
C11_NoExpiredRetained ==
    \A t \in DOMAIN sessions : Age(t) < SessionHours

\* C11 as amended: the clock alone never changes the table, so an entry stays
\* stored past 24 hours until a call names its token; a get on an entry that
\* is 24 hours old or older removes it in the same step in which it returns
\* absent; no get returns a session that is 24 hours old or older; and an
\* entry leaves the table only by a delete on its token or by such a get.
C11_ExpiryIsRemovalOnRead ==
    [][/\ now' # now => sessions' = sessions
       /\ \A t \in Tokens :
            /\ (GetSession(t) /\ t \in DOMAIN sessions /\ Age(t) >= SessionHours)
               => (ret'.result = None /\ t \notin DOMAIN sessions')
            /\ (GetSession(t) /\ ret'.result # None)
               => now - ret'.result.created_at < SessionHours
            /\ (t \in DOMAIN sessions /\ t \notin DOMAIN sessions')
               => \/ DeleteSession(t)
                  \/ GetSession(t) /\ Age(t) >= SessionHours]_vars

C11_Witness ==
    /\ ret.op = "get" /\ ret.was_present /\ ret.result = None
    /\ ret.token \notin DOMAIN sessions
    /\ \E k \in DOMAIN sessions : Age(k) >= SessionHours

\* ============================== the registry under concurrent request threads
\* Each thread runs create_session, get_session or delete_session one
\* statement at a time; the interpreter makes each dict operation atomic and
\* may switch threads between any two of them. frames[h].made remembers the
\* token, subject id and role of the last create the thread completed.

Returned(f, result, raised) ==
    [f EXCEPT !.pc = "idle", !.session = None, !.result = result,
              !.raised = raised]

Entered(h, op, t, next) ==
    [frames[h] EXCEPT !.pc = next, !.op = op, !.token = t, !.user_id = 0,
                      !.role = "", !.session = None, !.result = None,
                      !.raised = NoError]

\* session_token = secrets.token_urlsafe(32)
CreateToken(h, user_id, role) ==
    /\ frames[h].pc = "idle"
    /\ \E t \in FreshTokens :
        /\ issued' = issued \cup {t}
        /\ frames' = [frames EXCEPT ![h] =
              [Entered(h, "create", t, "create_store")
                 EXCEPT !.user_id = user_id, !.role = role]]
    /\ UNCHANGED <<users, records, sessions, now, ret, resp, cred>>

\* sessions[session_token] = {...}; return session_token
CreateStore(h) ==
    LET f == frames[h]
    IN  /\ f.pc = "create_store"
        /\ sessions' = CreateSessionStore(sessions, f.token, f.user_id,
                                          f.role, now)
        /\ frames' = [frames EXCEPT ![h] =
              [Returned(f, None, NoError) EXCEPT
                 !.made = [token |-> f.token, user_id |-> f.user_id,
                           role |-> f.role]]]
        /\ UNCHANGED <<users, records, issued, now, ret, resp, cred>>

\* if session_token in sessions:
GetTest(h, t) ==
    /\ frames[h].pc = "idle"
    /\ frames' = [frames EXCEPT ![h] =
          IF t \in DOMAIN sessions
          THEN Entered(h, "get", t, "get_read")
          ELSE Returned(Entered(h, "get", t, "idle"), None, NoError)]
    /\ UNCHANGED <<users, records, sessions, issued, now, ret, resp, cred>>

\* session = sessions[session_token]
GetRead(h) ==
    LET f == frames[h]
    IN  /\ f.pc = "get_read"
        /\ frames' = [frames EXCEPT ![h] =
              IF f.token \in DOMAIN sessions
              THEN [f EXCEPT !.pc = "get_expiry",
                             !.session = sessions[f.token]]
              ELSE Returned(f, None, "KeyError")]
        /\ UNCHANGED <<users, records, sessions, issued, now, ret, resp, cred>>

\* if datetime.now() - session["created_at"] < timedelta(hours=24): return
GetExpiry(h) ==
    LET f == frames[h]
    IN  /\ f.pc = "get_expiry"
        /\ frames' = [frames EXCEPT ![h] =
              IF Live(f.session, now)
              THEN Returned(f, f.session, NoError)
              ELSE [f EXCEPT !.pc = "get_del"]]
        /\ UNCHANGED <<users, records, sessions, issued, now, ret, resp, cred>>

\* del sessions[session_token]; return None
GetDel(h) ==
    LET f == frames[h]
        del == DictDel(sessions, f.token)
    IN  /\ f.pc = "get_del"
        /\ sessions' = del.store
        /\ frames' = [frames EXCEPT ![h] = Returned(f, None, del.raised)]
        /\ UNCHANGED <<users, records, issued, now, ret, resp, cred>>

\* if session_token in sessions:
DeleteTest(h, t) ==
    /\ frames[h].pc = "idle"
    /\ frames' = [frames EXCEPT ![h] =
          IF t \in DOMAIN sessions
          THEN Entered(h, "delete", t, "delete_del")
          ELSE Returned(Entered(h, "delete", t, "idle"), None, NoError)]
    /\ UNCHANGED <<users, records, sessions, issued, now, ret, resp, cred>>

\* del sessions[session_token]
DeleteDel(h) ==
    LET f == frames[h]
        del == DictDel(sessions, f.token)
    IN  /\ f.pc = "delete_del"
        /\ sessions' = del.store
        /\ frames' = [frames EXCEPT ![h] = Returned(f, None, del.raised)]
        /\ UNCHANGED <<users, records, issued, now, ret, resp, cred>>

\* The (subject id, role) pairs the threads log in with
Principals == {<<1, "doctor">>, <<2, "patient">>}

NextThreads ==
    \/ \E h \in Handlers, p \in Principals : CreateToken(h, p[1], p[2])
    \/ \E h \in Handlers : CreateStore(h)
    \/ \E h \in Handlers, t \in Tokens : GetTest(h, t)
    \/ \E h \in Handlers : GetRead(h)
    \/ \E h \in Handlers : GetExpiry(h)
    \/ \E h \in Handlers : GetDel(h)
    \/ \E h \in Handlers, t \in Tokens : DeleteTest(h, t)
    \/ \E h \in Handlers : DeleteDel(h)
    \/ Tick(24)

SpecThreads == InitState /\ [][NextThreads]_vars

\* C7: creates by concurrent threads, in any interleaving, return distinct
\* tokens; the store of a create adds one entry under a key that was not in
\* the table and changes no other entry; an entry in the table under a token
\* a create returned holds the subject id and role given to that create, and
\* so does every session a get returns for that token.
C7_ConcurrentCreates ==
    /\ [](\A h \in Handlers : frames[h].made # None =>
            LET m == frames[h].made
            IN  /\ \A g \in Handlers \ {h} :
                      frames[g].made # None => frames[g].made.token # m.token
                /\ m.token \in DOMAIN sessions =>
                      /\ sessions[m.token].user_id = m.user_id
                      /\ sessions[m.token].role = m.role
                /\ \A g \in Handlers :
                      (/\ frames[g].pc = "idle" /\ frames[g].op = "get"
                       /\ frames[g].token = m.token
                       /\ frames[g].result # None)
                      => /\ frames[g].result.user_id = m.user_id
                         /\ frames[g].result.role = m.role)
    /\ [][\A h \in Handlers : CreateStore(h) =>
            /\ frames[h].token \notin DOMAIN sessions
            /\ DOMAIN sessions' = DOMAIN sessions \cup {frames[h].token}
            /\ \A k \in DOMAIN sessions : sessions'[k] = sessions[k]]_vars

C7_Witness ==
    /\ frames["h1"].made # None /\ frames["h2"].made # None
    /\ frames["h1"].made.user_id = frames["h2"].made.user_id
    /\ {frames["h1"].made.token, frames["h2"].made.token} \subseteq DOMAIN sessions
    /\ frames["h1"].pc = "idle" /\ frames["h1"].op = "get"
    /\ frames["h1"].token = frames["h2"].made.token
    /\ frames["h1"].result # None
    /\ frames["h2"].pc = "idle" /\ frames["h2"].op = "get"
    /\ frames["h2"].token = frames["h1"].made.token
    /\ frames["h2"].result # None

\* C8: no call on the registry by a request thread ends in an exception,
\* whatever the other threads do between its statements.
C8_NoOperationRaises ==
    \A h \in Handlers : frames[h].raised = NoError

\* datetime.now() is the wall clock, which can also be set back
Rewind(d) ==
    /\ now - d >= 0
    /\ now' = now - d
    /\ UNCHANGED <<users, records, sessions, issued, ret, resp, cred, frames>>

NextClock ==
    \/ \E p \in Principals : CreateSession(p[1], p[2])
    \/ \E t \in Tokens : GetSession(t)
    \/ \E t \in Tokens : DeleteSession(t)
    \/ Tick(12)
    \/ Rewind(12)

SpecClock == InitState /\ [][NextClock]_vars

\* the last call was a get on t, and it returned absent
GotAbsent(t) == ret.op = "get" /\ ret.token = t /\ ret.result = None

\* C17: once a get on a token that a create returned has answered absent,
\* every later get on that token answers absent, whatever creates, gets and
\* deletes come between and however the clock moves, forward or back; a token
\* that was returned and is out of the table never enters it again.
C17_AbsenceIsPermanent ==
    /\ \A t \in Tokens :
         []((t \in issued /\ GotAbsent(t))
              => [](ret.op = "get" /\ ret.token = t => ret.result = None))
    /\ [][\A t \in issued :
            t \notin DOMAIN sessions => t \notin DOMAIN sessions']_vars

C17_Witness ==
    /\ ret.op = "get" /\ ret.result = None /\ ~ret.was_present
    /\ ret.token \in issued
    /\ ret.prev.op = "create" /\ ret.prev.token # ret.token
    /\ DOMAIN sessions # {}
    /\ now < SessionHours

\* ======================================================= the token's text
\* secrets.token_urlsafe(32) is base64.urlsafe_b64encode(token_bytes(32))
\* with the trailing '=' removed. Bytes are numbers in 0..255.

B64Alphabet ==
    <<"A", "B", "C", "D", "E", "F", "G", "H", "I", "J", "K", "L", "M",
      "N", "O", "P", "Q", "R", "S", "T", "U", "V", "W", "X", "Y", "Z",
      "a", "b", "c", "d", "e", "f", "g", "h", "i", "j", "k", "l", "m",
      "n", "o", "p", "q", "r", "s", "t", "u", "v", "w", "x", "y", "z",
      "0", "1", "2", "3", "4", "5", "6", "7", "8", "9", "-", "_">>

UrlSafeChars == {B64Alphabet[i] : i \in DOMAIN B64Alphabet}

ByteAt(bytes, i) == IF i <= Len(bytes) THEN bytes[i] ELSE 0

\* the k-th character of the padded encoding: three bytes make a 24-bit
\* group of four 6-bit digits; a digit made of padding bits alone is '='
B64Char(bytes, k) ==
    LET g == (k - 1) \div 4
        j == (k - 1) % 4
        v == ByteAt(bytes, 3 * g + 1) * 65536 + ByteAt(bytes, 3 * g + 2) * 256
               + ByteAt(bytes, 3 * g + 3)
        digit == CASE j = 0 -> v \div 262144
                   [] j = 1 -> (v \div 4096) % 64
                   [] j = 2 -> (v \div 64) % 64
                   [] OTHER -> v % 64
        given == Len(bytes) - 3 * g
    IN  IF given < 3 /\ j > given THEN "=" ELSE B64Alphabet[digit + 1]

UrlsafeB64Encode(bytes) ==
    [k \in 1..(4 * ((Len(bytes) + 2) \div 3)) |-> B64Char(bytes, k)]

\* bytes.rstrip(b'=')
RStripEq(s) ==
    LET keep == {i \in 1..Len(s) : s[i] # "="}
    IN  IF keep = {} THEN <<>>
        ELSE SubSeq(s, 1, CHOOSE i \in keep : \A j \in keep : j <= i)

TokenPadded(bytes) == UrlsafeB64Encode(bytes)

TokenUrlsafe(bytes) == RStripEq(UrlsafeB64Encode(bytes))

\* values of token_bytes(32): one byte everywhere, or one byte everywhere
\* but at one place
ByteFill(b, i, c) == [k \in 1..TokenBytes |-> IF k = i THEN c ELSE b]

TokenByteSeqs ==
    {ByteFill(b, 1, b) : b \in {0, 65, 251, 255}}
    \cup {ByteFill(b[1], i, b[2]) :
            b \in {<<0, 255>>, <<255, 0>>}, i \in {1, 2, 3, 30, 31, 32}}

\* token_urlsafe over those values, each encoded once
TokenTable == [bytes \in TokenByteSeqs |-> TokenUrlsafe(bytes)]

\* create_session, with the token as the text it is; the random bytes are
\* taken never to yield a token that was returned before
CreateSessionText(user_id, role, bytes) ==
    LET t == TokenTable[bytes]
    IN  /\ Cardinality(issued) < NumTokens
        /\ t \notin issued
        /\ issued' = issued \cup {t}
        /\ sessions' = CreateSessionStore(sessions, t, user_id, role, now)
        /\ ret' = [op |-> "create", token |-> t, user_id |-> user_id,
                   role |-> role, at |-> now, bytes |-> bytes]
        /\ UNCHANGED <<users, records, now, resp, cred, frames>>

NextText ==
    \E p \in Principals, bytes \in TokenByteSeqs :
        CreateSessionText(p[1], p[2], bytes)

SpecText == InitState /\ [][NextText]_vars

\* C12 as stated: a token create returns is URL-safe and has at least 64
\* characters.
C12_TokenAtLeast64 ==
    ret.op = "create" =>
        /\ \A i \in 1..Len(ret.token) : ret.token[i] \in UrlSafeChars
        /\ Len(ret.token) >= 64

\* C12 as amended: a token create returns has exactly 43 characters, each a
\* letter, a digit, '-' or '_'; it is the key of the entry the create stored,
\* and tokens made from different bytes differ.
C12_TokenIs43UrlSafe ==
    ret.op = "create" =>
        /\ \A i \in 1..Len(ret.token) : ret.token[i] \in UrlSafeChars
        /\ Len(ret.token) = 43
        /\ ret.token \in DOMAIN sessions
        /\ sessions[ret.token].user_id = ret.user_id
        /\ \A bytes \in TokenByteSeqs :
              bytes # ret.bytes => TokenTable[bytes] # ret.token

C12_Witness ==
    /\ ret.op = "create" /\ Len(ret.token) = 43
    /\ ret.token[1] = "_" /\ ret.token[43] = "A"
    /\ Cardinality(DOMAIN sessions) = 2

\* ================================================================ database
\* app/models.py against the two tables. A users row is
\* [id, email, password_hash, role]; ids are handed out in insertion order.

GetFirstUser(email) == IF users = <<>> THEN None ELSE users[1]

GetUserByEmail(email) ==
    IF \E i \in DOMAIN users : users[i].email = email
    THEN users[CHOOSE i \in DOMAIN users : users[i].email = email]
    ELSE None

GetUserById(user_id) ==
    IF \E i \in DOMAIN users : users[i].id = user_id
    THEN users[CHOOSE i \in DOMAIN users : users[i].id = user_id]
    ELSE None

\* create_user: the INSERT fails on the unique email and is rolled back
CreateUserRow(email, password_hash, role) ==
    IF GetUserByEmail(email) # None THEN None
    ELSE [id |-> Len(users) + 1, email |-> email,
          password_hash |-> password_hash, role |-> role]

\* create_medical_record: the row the INSERT adds
RecordRow(doctor_id, patient_id, title, notes) ==
    [id |-> Len(records) + 1, doctor_id |-> doctor_id,
     patient_id |-> patient_id, title |-> title, notes |-> notes,
     created_at |-> now]

\* get_records_by_doctor / get_records_by_patient: the ids of the rows
\* selected (the JOIN keeps a row only if its other party is a user)
GetRecordsByDoctor(doctor_id) ==
    {records[i].id : i \in {j \in DOMAIN records :
        /\ records[j].doctor_id = doctor_id
        /\ GetUserById(records[j].patient_id) # None}}

GetAllRecords(patient_id) == {records[i].id : i \in DOMAIN records}

GetRecordsByPatient(patient_id) ==
    {records[i].id : i \in {j \in DOMAIN records :
        /\ records[j].patient_id = patient_id
        /\ GetUserById(records[j].doctor_id) # None}}

\* ILIKE '%term%' on emails: a case-insensitive infix test (for terms
\* without the wildcards '%' and '_')
ToLower(c) ==
    CASE c = "D" -> "d"
      [] c = "P" -> "p"
      [] c = "E" -> "e"
      [] c = "Q" -> "q"
      [] OTHER   -> c

LowerSeq(s) == [i \in 1..Len(s) |-> ToLower(s[i])]

InfixOf(term, s) ==
    \E i \in 0..(Len(s) - Len(term)) :
        LowerSeq(SubSeq(s, i + 1, i + Len(term))) = LowerSeq(term)

UserIdsWhere(role, term) ==
    {users[i].id : i \in {j \in DOMAIN users :
        users[j].role = role /\ InfixOf(term, users[j].email)}}

\* search_patients / search_doctors / get_all_patients: the ids of the users
\* selected (the LIMIT is larger than the tables modelled)
SearchPatients(term) == UserIdsWhere("patient", term)

SearchDoctors(term) == UserIdsWhere("doctor", term)

GetAllPatients == UserIdsWhere("patient", <<>>)

\* get_doctors_visited_by_patient
GetDoctorsVisitedByPatient(patient_id) ==
    {users[i].id : i \in {j \in DOMAIN users :
        /\ users[j].role = "doctor"
        /\ \E k \in DOMAIN records :
              /\ records[k].doctor_id = users[j].id
              /\ records[k].patient_id = patient_id}}

\* str.strip() on text whose only whitespace is the blank
RECURSIVE LStrip(_)
LStrip(s) == IF s # <<>> /\ Head(s) = " " THEN LStrip(Tail(s)) ELSE s

RECURSIVE RStrip(_)
RStrip(s) ==
    IF s # <<>> /\ s[Len(s)] = " " THEN RStrip(SubSeq(s, 1, Len(s) - 1)) ELSE s

NoStrip(s) == s

Strip(s) == RStrip(LStrip(s))

\* ============================================================= HTTP routes
\* Every handler is a coroutine without an await: it runs to completion
\* before the next request is served.

\* request.cookies.get("session_token") when the cookie is missing or empty
NoCookie == 0

\* a cookie value the token source never returns
BogusToken == NumTokens + 1

AllTokens == Tokens \cup {BogusToken}

\* what a client can send as its session cookie
Cookies == issued \cup {BogusToken, NoCookie}

Response(route, cookie, status, location) ==
    [route |-> route, cookie |-> cookie, status |-> status,
     location |-> location, db |-> FALSE, user_id |-> 0, records |-> {},
     set_cookie |-> NoCookie, delete_cookie |-> FALSE,
     view |-> "", q |-> <<>>, results |-> {}, patient_email |-> None]

\* get_current_user: the user it returns and the session table it leaves
CurrentUserNoExpiry(s, cookie, time) ==
    IF cookie = NoCookie \/ cookie \notin DOMAIN s
    THEN [store |-> s, user |-> None]
    ELSE [store |-> s,
          user |-> [user_id |-> s[cookie].user_id, role |-> s[cookie].role]]

GetCurrentUser(s, cookie, time) ==
    IF cookie = NoCookie THEN [store |-> s, user |-> None]
    ELSE LET call == GetSessionCall(s, cookie, time)
         IN  IF call.result = None
             THEN [store |-> call.store, user |-> None]
             ELSE [store |-> call.store,
                   user |-> [user_id |-> call.result.user_id,
                             role |-> call.result.role]]

EmailD == <<"d", "@", ".">>
EmailP == <<"p", "@", ".">>
EmailNoDot == <<"x", "@">>
Emails == {EmailD, EmailP, EmailNoDot}
LoginPasswords == {PwSecret, PwSecre7}
RegisterSalts == {<<"0">>}
\* registration forms (email, password, role): the acceptable ones, and one
\* for each validation that rejects
RegisterForms ==
    {<<e, PwSecret, r>> : e \in {EmailD, EmailP}, r \in Roles}
    \cup {<<EmailD, PwSecret, "admin">>, <<EmailNoDot, PwSecret, "doctor">>,
          <<EmailP, <<"s", "e", "c", "r", "e">>, "patient">>}
\* record forms (patient_email, title)
RecordForms ==
    {<<EmailP, <<" ", "x", " ">> >>, <<EmailP, <<" ">> >>,
     <<EmailD, <<"x">> >>, <<EmailNoDot, <<"x">> >>}
NotesTexts == {<<"n", " ">>}
\* the patient_id query parameter of /records/create: missing, the id of a
\* user or of none, and a text that is no number
PatientIdParams == {<<>>, <<"1">>, <<"2">>, <<"x">>}

\* hash_password and verify_password tabulated over the forms above, so that
\* each digest is computed once
HashTable ==
    [password \in {f[2] : f \in RegisterForms}, salt \in RegisterSalts |->
        HashPassword(password, salt)]

StoredCredentials ==
    {HashTable[f[2], salt] : f \in RegisterForms, salt \in RegisterSalts}

VerifyTable ==
    [password \in LoginPasswords, credential \in StoredCredentials |->
        VerifyPassword(password, credential)]

\* POST /register
Register(email, password, role, salt) ==
    LET row == CreateUserRow(email, HashTable[password, salt], role)
        rejected == \/ role \notin Roles
                    \/ ~Contains("@", email) \/ ~Contains(".", email)
                    \/ Len(password) < MinPasswordLen
    IN  /\ users' = IF rejected \/ row = None THEN users
                    ELSE Append(users, row)
        /\ resp' = IF rejected \/ row = None
                   THEN [Response("register", NoCookie, 400, "")
                           EXCEPT !.db = ~rejected]
                   ELSE [Response("register", NoCookie, 303,
                                  "/login?registered=1") EXCEPT !.db = TRUE]
        /\ UNCHANGED <<records, sessions, issued, now, ret, cred, frames>>

\* The routes only ever compare tokens for equality, so the token a login
\* receives is named by order of issue: of the still unused tokens, the least.
NextToken == {t \in FreshTokens : \A u \in FreshTokens : t <= u}

\* POST /login
Login(email, password) ==
    LET user == GetUserByEmail(email)
    IN  IF user = None \/ ~VerifyTable[password, user.password_hash].value
        THEN /\ resp' = [Response("login", NoCookie, 401, "")
                          EXCEPT !.db = TRUE]
             /\ UNCHANGED <<users, records, sessions, issued, now, ret, cred,
                            frames>>
        ELSE \E t \in NextToken :
             /\ issued' = issued \cup {t}
             /\ sessions' = CreateSessionStore(sessions, t, user.id,
                                               user.role, now)
             /\ resp' = [Response("login", NoCookie, 303,
                                  <<"/", user.role, "/dashboard">>)
                           EXCEPT !.set_cookie = t, !.user_id = user.id,
                                  !.db = TRUE]
             /\ UNCHANGED <<users, records, now, ret, cred, frames>>

\* GET /logout: the session table it leaves
LogoutCookieOnly(s, cookie) == s

LogoutStore(s, cookie) ==
    IF cookie # NoCookie THEN DeleteSessionCall(s, cookie).store ELSE s

Logout(cookie) ==
    /\ sessions' = LogoutStore(sessions, cookie)
    /\ resp' = [Response("logout", cookie, 303, "/")
                  EXCEPT !.delete_cookie = TRUE]
    /\ UNCHANGED <<users, records, issued, now, ret, cred, frames>>

\* The first lines of every protected handler: 303 to /login without a
\* user, 403 for a user of another role, else the handler's own response
Guarded(route, cookie, role, body) ==
    LET cu == GetCurrentUser(sessions, cookie, now)
    IN  /\ sessions' = cu.store
        /\ resp' = IF cu.user = None
                   THEN Response(route, cookie, 303, "/login")
                   ELSE IF cu.user.role # role
                   THEN [Response(route, cookie, 403, "")
                           EXCEPT !.user_id = cu.user.user_id]
                   ELSE body

Allowed(cookie, role) ==
    LET cu == GetCurrentUser(sessions, cookie, now)
    IN  cu.user # None /\ cu.user.role = role

UserIdOf(cookie) == GetCurrentUser(sessions, cookie, now).user.user_id

\* GET /doctor/dashboard?view=..&q=..: the doctor's records, and the
\* patients the view and q parameters select
DoctorDashboardView(cookie, view, q) ==
    /\ Guarded("doctor_dashboard", cookie, "doctor",
          [Response("doctor_dashboard", cookie, 200, "") EXCEPT
             !.db = TRUE, !.user_id = UserIdOf(cookie),
             !.records = GetRecordsByDoctor(UserIdOf(cookie)),
             !.view = view, !.q = q,
             !.results = IF view = "search" /\ q # <<>>
                         THEN SearchPatients(q)
                         ELSE IF view = "patients" THEN GetAllPatients
                         ELSE {}])
    /\ UNCHANGED <<users, records, issued, now, ret, cred, frames>>

\* GET /doctor/dashboard without query parameters
DoctorDashboard(cookie) == DoctorDashboardView(cookie, "overview", <<>>)

\* GET /patient/dashboard?view=..&q=..: the patient's records, and the
\* doctors the view and q parameters select
PatientDashboardView(cookie, view, q) ==
    /\ Guarded("patient_dashboard", cookie, "patient",
          [Response("patient_dashboard", cookie, 200, "") EXCEPT
             !.db = TRUE, !.user_id = UserIdOf(cookie),
             !.records = GetRecordsByPatient(UserIdOf(cookie)),
             !.view = view, !.q = q,
             !.results = IF view = "search" /\ q # <<>>
                         THEN SearchDoctors(q)
                         ELSE IF view = "doctors"
                         THEN GetDoctorsVisitedByPatient(UserIdOf(cookie))
                         ELSE {}])
    /\ UNCHANGED <<users, records, issued, now, ret, cred, frames>>

\* GET /patient/dashboard without query parameters
PatientDashboard(cookie) == PatientDashboardView(cookie, "overview", <<>>)

\* int(patient_id): blanks around the text are dropped, one sign may lead,
\* and the rest is decimal digits, single underscores allowed between two
\* digits; any other text (empty, or holding a letter) raises ValueError
DigitValue(c) ==
    CASE c = "0" -> 0 [] c = "1" -> 1 [] c = "2" -> 2 [] c = "3" -> 3
      [] c = "4" -> 4 [] c = "5" -> 5 [] c = "6" -> 6 [] c = "7" -> 7
      [] c = "8" -> 8 [] c = "9" -> 9 [] OTHER -> -1

RECURSIVE DigitsValue(_)
DigitsValue(s) ==
    IF s = <<>> THEN 0
    ELSE 10 * DigitsValue(SubSeq(s, 1, Len(s) - 1)) + DigitValue(s[Len(s)])

IsDigit(c) == DigitValue(c) >= 0

ParseInt(text) ==
    LET s == Strip(text)
        signed == s # <<>> /\ Head(s) \in {"+", "-"}
        body == IF signed THEN Tail(s) ELSE s
        wellFormed ==
            /\ body # <<>>
            /\ IsDigit(body[1]) /\ IsDigit(body[Len(body)])
            /\ \A i \in 1..Len(body) :
                  \/ IsDigit(body[i])
                  \/ /\ body[i] = "_"
                     /\ IsDigit(body[i - 1]) /\ IsDigit(body[i + 1])
        magnitude == DigitsValue(SelectSeq(body, IsDigit))
    IN  IF wellFormed
        THEN [raised |-> NoError,
              value |-> IF signed /\ Head(s) = "-" THEN 0 - magnitude
                        ELSE magnitude]
        ELSE [raised |-> "ValueError", value |-> 0]

\* The patient_id query parameter (<<>> when it is missing or empty): with
\* one that int() accepts the handler reads the user with that id, and
\* pre-fills the form with the email if that user is a patient;
\* patient_email is None or [email |-> the email]
Prefill(patient_id) ==
    IF patient_id = <<>> \/ ParseInt(patient_id).raised # NoError
    THEN [db |-> FALSE, patient_email |-> None]
    ELSE LET patient == GetUserById(ParseInt(patient_id).value)
         IN  [db |-> TRUE,
              patient_email |->
                 IF patient # None /\ patient.role = "patient"
                 THEN [email |-> patient.email] ELSE None]

\* GET /records/create?patient_id=..
CreateRecordPage(cookie, patient_id) ==
    /\ Guarded("create_record_page", cookie, "doctor",
          [Response("create_record_page", cookie, 200, "") EXCEPT
             !.user_id = UserIdOf(cookie),
             !.db = Prefill(patient_id).db,
             !.patient_email = Prefill(patient_id).patient_email])
    /\ UNCHANGED <<users, records, issued, now, ret, cred, frames>>

\* POST /records/create reaches create_medical_record
Inserts(cookie, patient_email, title) ==
    LET patient == GetUserByEmail(patient_email)
    IN  /\ Allowed(cookie, "doctor") /\ Strip(title) # <<>>
        /\ patient # None /\ patient.role = "patient"

\* the submit would not grow the table past the limit
TableHasRoom(limit, cookie, patient_email, title) ==
    Inserts(cookie, patient_email, title) => Len(records) < limit

\* POST /records/create
CreateRecord(cookie, patient_email, title, notes) ==
    LET patient == GetUserByEmail(patient_email)
        route == "create_record"
        inserts == Inserts(cookie, patient_email, title)
    IN  /\ Guarded(route, cookie, "doctor",
              IF Strip(title) = <<>>
              THEN [Response(route, cookie, 400, "")
                      EXCEPT !.user_id = UserIdOf(cookie)]
              ELSE IF patient = None
              THEN [Response(route, cookie, 404, "")
                      EXCEPT !.db = TRUE, !.user_id = UserIdOf(cookie)]
              ELSE IF patient.role # "patient"
              THEN [Response(route, cookie, 400, "")
                      EXCEPT !.db = TRUE, !.user_id = UserIdOf(cookie)]
              ELSE [Response(route, cookie, 303, "/doctor/dashboard?created=1")
                      EXCEPT !.db = TRUE, !.user_id = UserIdOf(cookie)])
        /\ records' = IF inserts
                      THEN Append(records,
                                  RecordRow(UserIdOf(cookie), patient.id,
                                            Strip(title), Strip(notes)))
                      ELSE records
        /\ UNCHANGED <<users, issued, now, ret, cred, frames>>

NextApp ==
    \/ \E f \in RegisterForms, salt \in RegisterSalts :
          Register(f[1], f[2], f[3], salt)
    \/ \E e \in Emails, p \in LoginPasswords : Login(e, p)
    \/ \E c \in Cookies : Logout(c)
    \/ \E c \in Cookies : DoctorDashboard(c)
    \/ \E c \in Cookies : PatientDashboard(c)
    \/ \E c \in Cookies, id \in PatientIdParams : CreateRecordPage(c, id)
    \/ \E c \in Cookies, f \in RecordForms, n \in NotesTexts :
          /\ TableHasRoom(MaxRecords, c, f[1], f[2])
          /\ CreateRecord(c, f[1], f[2], n)
    \/ Tick(24)

SpecApp == InitState /\ [][NextApp]_vars

\* The role each protected route requires
RequiredRole(route) ==
    IF route = "patient_dashboard" THEN "patient" ELSE "doctor"

ProtectedRoutes ==
    {"doctor_dashboard", "patient_dashboard", "create_record_page",
     "create_record"}

\* a step that serves a request (the clock is the only other thing that moves)
Served(routes) == now' = now /\ resp'.route \in routes

\* the token is in the table and less than 24 hours old
LiveToken(c) ==
    /\ c # NoCookie /\ c \in DOMAIN sessions
    /\ now - sessions[c].created_at < SessionHours

\* C4: a protected request without a cookie, or whose token has no live
\* session, is answered 303 to /login; one whose live session has another
\* role than the route requires is answered 403; in both cases the handler
\* neither reads nor writes the database, which it reaches only for a live
\* session of the required role, acting as that session's user.
C4_ProtectedRoutesGuarded ==
    [][Served(ProtectedRoutes) =>
        LET c == resp'.cookie
        IN  /\ ~LiveToken(c) =>
                /\ resp'.status = 303 /\ resp'.location = "/login"
                /\ ~resp'.db /\ records' = records
            /\ (LiveToken(c) /\ sessions[c].role # RequiredRole(resp'.route)) =>
                /\ resp'.status = 403
                /\ ~resp'.db /\ records' = records
            /\ (resp'.db \/ records' # records) =>
                /\ LiveToken(c)
                /\ sessions[c].role = RequiredRole(resp'.route)
                /\ resp'.user_id = sessions[c].user_id
            /\ (LiveToken(c) /\ sessions[c].role = RequiredRole(resp'.route)) =>
                resp'.status \in {200, 303, 400, 404}]_vars

C4_Witness ==
    /\ resp.route = "create_record" /\ resp.status = 303
    /\ resp.location = "/login"
    /\ resp.cookie \in issued /\ resp.cookie \notin DOMAIN sessions
    /\ now >= SessionHours
    /\ Len(records) >= 1

\* the stored credential is the hash of this password under some salt
CredentialOf(user, password) ==
    \E salt \in RegisterSalts :
        /\ <<password, salt>> \in DOMAIN HashTable
        /\ user.password_hash = HashTable[password, salt]

\* C5: a session enters the table only in a login whose email is that of a
\* stored user and whose password is the one that user's credential was
\* hashed from, and it carries that user's id and role; such a login does
\* add one; a login with an unknown email or another password is answered
\* 401 and changes neither the table nor the tokens issued; a registration
\* leaves the table unchanged.
C5_SessionsOnlyFromLogin ==
    [][/\ \A t \in AllTokens :
            (t \notin DOMAIN sessions /\ t \in DOMAIN sessions') =>
                \E e \in Emails, p \in LoginPasswords :
                    /\ Login(e, p)
                    /\ \E i \in DOMAIN users :
                        /\ users[i].email = e
                        /\ CredentialOf(users[i], p)
                        /\ sessions'[t].user_id = users[i].id
                        /\ sessions'[t].role = users[i].role
                        /\ sessions'[t].created_at = now
                    /\ resp'.status = 303 /\ resp'.set_cookie = t
       /\ \A e \in Emails, p \in LoginPasswords :
            (Served({"login"}) /\ Login(e, p)) =>
                IF \E i \in DOMAIN users :
                       users[i].email = e /\ CredentialOf(users[i], p)
                THEN /\ resp'.status = 303
                     /\ DOMAIN sessions' = DOMAIN sessions \cup {resp'.set_cookie}
                     /\ resp'.set_cookie \notin DOMAIN sessions
                ELSE /\ resp'.status = 401
                     /\ sessions' = sessions /\ issued' = issued
       /\ Served({"register"}) => (sessions' = sessions /\ issued' = issued)
      ]_vars

C5_Witness ==
    /\ resp.route = "login" /\ resp.status = 303
    /\ resp.set_cookie \in DOMAIN sessions
    /\ Len(users) = 2
    /\ sessions[resp.set_cookie].user_id = 2
    /\ sessions[resp.set_cookie].role = users[2].role
    /\ users[1].role # users[2].role

\* C6: a logout carrying a token removes that token's entry and no other,
\* and one without a cookie leaves the table unchanged; both answer 303 to /
\* and tell the client to drop the cookie. A token that was issued and is no
\* longer in the table never re-enters it, and a protected request
\* presenting such a token is answered 303 to /login.
C6_LogoutEndsSession ==
    [][/\ Served({"logout"}) =>
            /\ resp'.status = 303 /\ resp'.location = "/"
            /\ resp'.delete_cookie
            /\ DOMAIN sessions' = DOMAIN sessions \ {resp'.cookie}
            /\ \A k \in DOMAIN sessions' : sessions'[k] = sessions[k]
            /\ resp'.cookie = NoCookie => sessions' = sessions
       /\ \A t \in issued \cup {BogusToken} :
            t \notin DOMAIN sessions =>
                /\ t \notin DOMAIN sessions'
                /\ (Served(ProtectedRoutes) /\ resp'.cookie = t) =>
                      (resp'.status = 303 /\ resp'.location = "/login")
      ]_vars

C6_Witness ==
    /\ resp.route = "logout" /\ resp.cookie \in issued
    /\ resp.cookie \notin DOMAIN sessions
    /\ now = 0
    /\ Len(users) = 1
    /\ \E k \in DOMAIN sessions : sessions[k].user_id = users[1].id

\* C13: every session in the table has the role doctor or patient and the
\* id of a stored user whose stored role is the session's role; every stored
\* user has one of the two roles; a registration naming any other role is
\* answered 400 and stores no user.
C13_SessionsMatchUsers ==
    /\ [](/\ \A i \in DOMAIN users : users[i].role \in {"doctor", "patient"}
          /\ \A t \in DOMAIN sessions :
                /\ sessions[t].role \in {"doctor", "patient"}
                /\ \E i \in DOMAIN users :
                      /\ users[i].id = sessions[t].user_id
                      /\ users[i].role = sessions[t].role)
    /\ [][\A f \in RegisterForms, salt \in RegisterSalts :
            (/\ Served({"register"}) /\ f[3] \notin {"doctor", "patient"}
             /\ Register(f[1], f[2], f[3], salt))
            => (resp'.status = 400 /\ users' = users)]_vars

C13_Witness ==
    /\ Cardinality(DOMAIN sessions) = 2
    /\ \E t, k \in DOMAIN sessions :
          /\ sessions[t].role = "doctor" /\ sessions[k].role = "patient"
          /\ sessions[t].user_id # sessions[k].user_id
    /\ resp.route = "register" /\ resp.status = 400

\* ================================================== a clinic with four users
\* The state after two doctors and two patients have registered, in the
\* order doctor, patient, doctor, patient.
EmailD2 == <<"e", "@", ".">>
EmailP2 == <<"q", "@", ".">>
ClinicEmails == {EmailD, EmailP, EmailD2, EmailP2}

ClinicUser(id, email, role) ==
    [id |-> id, email |-> email,
     password_hash |-> HashTable[PwSecret, <<"0">>], role |-> role]

InitClinic ==
    /\ users = <<ClinicUser(1, EmailD, "doctor"), ClinicUser(2, EmailP, "patient"),
                 ClinicUser(3, EmailD2, "doctor"),
                 ClinicUser(4, EmailP2, "patient")>>
    /\ records = <<>>
    /\ sessions = [t \in {} |-> None]
    /\ issued = {}
    /\ now = 0
    /\ ret = [op |-> "none", token |-> 0]
    /\ resp = [route |-> "none"]
    /\ cred = [op |-> "none", credential |-> <<>>, origin |-> "none"]
    /\ frames = [h \in Handlers |-> IdleFrame]

\* the view and q query parameters of the dashboards
Views == {"search", "patients", "doctors"}
Queries == {<<>>, <<"P">>}

NextClinic ==
    \/ \E e \in ClinicEmails : Login(e, PwSecret)
    \/ \E c \in issued \cup {NoCookie}, v \in Views, q \in Queries :
          DoctorDashboardView(c, v, q)
    \/ \E c \in issued \cup {NoCookie}, v \in Views, q \in Queries :
          PatientDashboardView(c, v, q)
    \/ \E c \in issued, e \in {EmailP, EmailP2}, n \in NotesTexts :
          /\ TableHasRoom(MaxClinicRecords, c, e, <<"x">>)
          /\ CreateRecord(c, e, <<"x">>, n)

SpecClinic == InitClinic /\ [][NextClinic]_vars

\* the ids of the records whose field names the user
RecordIdsWith(field, user_id) ==
    {records[i].id : i \in {j \in DOMAIN records : records[j][field] = user_id}}

\* C14: whatever view and q a dashboard request carries, a patient dashboard
\* that answers 200 was given a live patient session and passes to the page
\* exactly the records whose patient_id is that session's subject id, and a
\* doctor dashboard that answers 200 was given a live doctor session and
\* passes exactly the records whose doctor_id is that session's subject id;
\* otherwise a dashboard passes no record.
C14_DashboardShowsOwnRecords ==
    [][/\ Served({"patient_dashboard"}) =>
            IF resp'.status = 200
            THEN /\ LiveToken(resp'.cookie)
                 /\ sessions[resp'.cookie].role = "patient"
                 /\ resp'.records =
                      RecordIdsWith("patient_id", sessions[resp'.cookie].user_id)
            ELSE resp'.records = {}
       /\ Served({"doctor_dashboard"}) =>
            IF resp'.status = 200
            THEN /\ LiveToken(resp'.cookie)
                 /\ sessions[resp'.cookie].role = "doctor"
                 /\ resp'.records =
                      RecordIdsWith("doctor_id", sessions[resp'.cookie].user_id)
            ELSE resp'.records = {}]_vars

C14_Witness ==
    /\ resp.route = "patient_dashboard" /\ resp.status = 200
    /\ resp.view = "doctors" /\ resp.q # <<>>
    /\ Len(records) = 2
    /\ Cardinality(resp.records) = 1
    /\ records[1].patient_id # records[2].patient_id
    /\ resp.results # {}

\* the text has a character that is not a blank
NonBlank(text) == \E i \in 1..Len(text) : text[i] # " "

\* the stored user with this email and role, if any
UsersWith(email, role) ==
    {i \in DOMAIN users : users[i].email = email /\ users[i].role = role}

\* C15: the records table changes only in a record-creation submit that
\* presents a live doctor session, a title with a non-blank character and the
\* email of a stored patient; the step appends one row with the session's
\* subject id as doctor_id, that patient's id and the trimmed title, and
\* answers 303 to the doctor dashboard. Any other submit stores nothing and
\* answers 303 to /login (no live session), 403 (not a doctor), 400 (blank
\* title), 404 (no user with that email) or 400 (the user is not a patient),
\* tested in that order. Every stored record names a doctor and a patient.
C15_RecordsOnlyFromDoctorSubmit ==
    /\ [][/\ records' # records =>
               /\ Served({"create_record"})
               /\ resp'.status = 303
               /\ resp'.location = "/doctor/dashboard?created=1"
               /\ LiveToken(resp'.cookie)
               /\ sessions[resp'.cookie].role = "doctor"
               /\ Len(records') = Len(records) + 1
               /\ SubSeq(records', 1, Len(records)) = records
               /\ LET row == records'[Len(records')]
                  IN  /\ row.doctor_id = sessions[resp'.cookie].user_id
                      /\ row.title # <<>>
                      /\ row.title[1] # " " /\ row.title[Len(row.title)] # " "
                      /\ \E i \in DOMAIN users :
                            users[i].id = row.patient_id
                            /\ users[i].role = "patient"
          /\ Served({"create_record"}) =>
               LET c == resp'.cookie
               IN  \A f \in RecordForms, n \in NotesTexts :
                     CreateRecord(c, f[1], f[2], n) =>
                       IF ~LiveToken(c)
                       THEN /\ resp'.status = 303 /\ resp'.location = "/login"
                            /\ records' = records
                       ELSE IF sessions[c].role # "doctor"
                       THEN resp'.status = 403 /\ records' = records
                       ELSE IF ~NonBlank(f[2])
                       THEN resp'.status = 400 /\ records' = records
                       ELSE IF \A i \in DOMAIN users : users[i].email # f[1]
                       THEN resp'.status = 404 /\ records' = records
                       ELSE IF UsersWith(f[1], "patient") = {}
                       THEN resp'.status = 400 /\ records' = records
                       ELSE /\ resp'.status = 303 /\ records' # records
                            /\ \E i \in UsersWith(f[1], "patient") :
                                  records'[Len(records')].patient_id
                                     = users[i].id
         ]_vars
    /\ [](\A k \in DOMAIN records :
            /\ \E i \in DOMAIN users :
                  users[i].id = records[k].doctor_id /\ users[i].role = "doctor"
            /\ \E i \in DOMAIN users :
                  users[i].id = records[k].patient_id
                  /\ users[i].role = "patient")

C15_Witness ==
    /\ resp.route = "create_record" /\ resp.status = 404
    /\ Len(records) = 1
    /\ records[1].title = <<"x">>
    /\ users[records[1].doctor_id].role = "doctor"
    /\ now > records[1].created_at

\* ================================= registrations by concurrent request workers
\* Each worker runs register one database statement at a time: validation and
\* hashing, the INSERT of create_user, then its commit or its rollback.
\* frames[h].session holds the email, credential and role being registered
\* and, once the INSERT has succeeded, the id of the uncommitted row.

\* users.email is UNIQUE: the INSERT fails if a committed row has the email
UniqueViolation(email) == \E i \in DOMAIN users : users[i].email = email

\* and it waits while another transaction holds an uncommitted row with it
WaitsForInsert(h, email) ==
    \E g \in Handlers \ {h} :
        frames[g].pc = "reg_commit" /\ frames[g].session.email = email

\* the id column: a number no committed or uncommitted row has
NextUserId ==
    LET taken == {users[i].id : i \in DOMAIN users}
                   \cup {frames[g].session.id :
                           g \in {k \in Handlers : frames[k].pc = "reg_commit"}}
    IN  CHOOSE n \in 1..(Cardinality(taken) + 1) :
            n \notin taken /\ \A m \in taken : m < n

\* what the route answers for the value create_user returned
AlwaysRedirect(user) == 303

RegisterStatus(user) == IF user = None THEN 400 ELSE 303

\* register up to the call of create_user: the three validations and the hash
RegStart(h, email, password, role, salt) ==
    LET rejected == \/ role \notin Roles
                    \/ ~Contains("@", email) \/ ~Contains(".", email)
                    \/ Len(password) < MinPasswordLen
    IN  /\ frames[h].pc = "idle"
        /\ frames' = [frames EXCEPT ![h] =
              IF rejected
              THEN [IdleFrame EXCEPT !.op = "register",
                                     !.result = [status |-> 400]]
              ELSE [IdleFrame EXCEPT !.pc = "reg_insert", !.op = "register",
                      !.session = [email |-> email, role |-> role,
                                   password_hash |->
                                       HashPassword(password, salt)]]]
        /\ UNCHANGED <<users, records, sessions, issued, now, ret, resp, cred>>

\* cursor.execute(INSERT ...)
RegInsert(h) ==
    LET f == frames[h]
    IN  /\ f.pc = "reg_insert"
        /\ ~WaitsForInsert(h, f.session.email)
        /\ frames' = [frames EXCEPT ![h] =
              IF UniqueViolation(f.session.email)
              THEN [f EXCEPT !.pc = "reg_rollback"]
              ELSE [f EXCEPT !.pc = "reg_commit",
                      !.session = [id |-> NextUserId,
                                   email |-> f.session.email,
                                   password_hash |-> f.session.password_hash,
                                   role |-> f.session.role]]]
        /\ UNCHANGED <<users, records, sessions, issued, now, ret, resp, cred>>

\* conn.commit(); return the row; the route redirects to /login
RegCommit(h) ==
    LET f == frames[h]
    IN  /\ f.pc = "reg_commit"
        /\ users' = Append(users, f.session)
        /\ frames' = [frames EXCEPT ![h] =
              [f EXCEPT !.pc = "idle",
                        !.result = [status |-> RegisterStatus(f.session)]]]
        /\ UNCHANGED <<records, sessions, issued, now, ret, resp, cred>>

\* conn.rollback(); return None; the route answers 400
RegRollback(h) ==
    LET f == frames[h]
    IN  /\ f.pc = "reg_rollback"
        /\ frames' = [frames EXCEPT ![h] =
              [f EXCEPT !.pc = "idle",
                        !.result = [status |-> RegisterStatus(None)]]]
        /\ UNCHANGED <<users, records, sessions, issued, now, ret, resp, cred>>

\* forms sent by the workers: one email twice with different passwords and
\* roles, another email, and a form the validation rejects
WorkerForms ==
    {<<EmailD, PwSecret, "doctor">>, <<EmailD, PwSecre7, "patient">>,
     <<EmailP, PwSecret, "patient">>, <<EmailP, PwSecret, "admin">>}

NextRegister ==
    \/ \E h \in Handlers, f \in WorkerForms, salt \in Salts :
          RegStart(h, f[1], f[2], f[3], salt)
    \/ \E h \in Handlers : RegInsert(h)
    \/ \E h \in Handlers : RegCommit(h)
    \/ \E h \in Handlers : RegRollback(h)

SpecRegister == InitState /\ [][NextRegister]_vars

\* C16: at most one stored user has any email, whatever the workers do
\* between their statements; a stored row is never changed or removed; an
\* INSERT whose email a stored user already has fails, and the registration
\* it belongs to then ends with 400 and stores nothing; a registration that
\* commits adds the one row it inserted and ends with 303.
C16_OneUserPerEmail ==
    /\ [](\A i, j \in DOMAIN users :
            users[i].email = users[j].email => i = j)
    /\ [][/\ \A i \in DOMAIN users :
                i \in DOMAIN users' /\ users'[i] = users[i]
          /\ \A h \in Handlers :
                /\ (RegInsert(h) /\ \E i \in DOMAIN users :
                        users[i].email = frames[h].session.email)
                   => frames'[h].pc = "reg_rollback"
                /\ RegRollback(h)
                   => /\ frames'[h].result = [status |-> 400]
                      /\ users' = users
                /\ RegCommit(h)
                   => /\ frames'[h].result = [status |-> 303]
                      /\ Len(users') = Len(users) + 1
                      /\ users'[Len(users')].email = frames[h].session.email
                      /\ users'[Len(users')].role = frames[h].session.role
         ]_vars

C16_Witness ==
    /\ frames["h1"].pc = "idle" /\ frames["h1"].op = "register"
    /\ frames["h1"].result = [status |-> 303]
    /\ frames["h2"].pc = "idle" /\ frames["h2"].op = "register"
    /\ frames["h2"].result = [status |-> 400]
    /\ frames["h2"].session # None
    /\ frames["h2"].session.email = frames["h1"].session.email
    /\ frames["h2"].session.role # frames["h1"].session.role
    /\ frames["h1"].session.id = 2
    /\ Len(users) = 2

====
